---- MODULE Spec2Model ----
(***************************************************************************)
(* Model of audio-analyzer/app.py: the Flask request handlers transcribe,  *)
(* analyze and export_csv over the in-memory session_store and the upload  *)
(* directory.  Every request runs on its own thread; a handler is cut into *)
(* steps at the places where another thread can observe or change shared   *)
(* state: the blocking provider calls and the exists()/unlink() pair.       *)
(*                                                                         *)
(* Strings are sequences of tokens.  A token is a character (".", "_",     *)
(* " ", "\n", a digit) or an indivisible run of characters that holds none *)
(* of the characters the code looks for ("wav", "hello"); FENCE is the     *)
(* three-backtick run and a JSON document is a single token.               *)
(***************************************************************************)
EXTENDS Integers, Sequences, FiniteSets, TLC

VARIABLES
    environ,        \* os.environ: which of the two API keys are set
    now,            \* time.time(), in whole seconds
    session_store,  \* the dict session_store
    files,          \* the names of the files in UPLOAD_DIR
    pc,             \* per request thread: where its handler stands
    loc,            \* per request thread: the handler's local variables
    last,           \* the request answered last, and its response
    started,        \* the requests begun so far, per route
    issued,         \* per session id: the uploads answered with it
    analysis_src    \* per session id: the transcript its analysis was made from

vars == <<environ, now, session_store, files, pc, loc, last, started,
          issued, analysis_src>>

(* ------------------------------ bounds --------------------------------- *)

\* The clock runs from 1 to MaxClock whole seconds.
MaxClock == 2
\* Upload and analyze requests begun in one behaviour, where the requests
\* of one route meet each other.
MaxUploads == 2
MaxAnalyses == 2
\* The same, where one request of a route is looked at with all its inputs.
FewUploads == 1
FewAnalyses == 1
MaxExports == 1

\* The request threads: two requests can be in flight together.
Threads == {1, 2}

(* ------------------------------ strings -------------------------------- *)

Digits == <<"0", "1", "2", "3", "4", "5", "6", "7", "8", "9">>

\* f"{int(...)}": the decimal digits of n.
RECURSIVE IntToStr(_)
IntToStr(n) ==
    IF n < 10 THEN <<Digits[n + 1]>>
    ELSE IntToStr(n \div 10) \o <<Digits[(n % 10) + 1]>>

Whitespace == {" ", "\n"}

\* str.strip(): leading and trailing whitespace removed.
RECURSIVE LStrip(_)
LStrip(s) ==
    IF s # <<>> /\ Head(s) \in Whitespace THEN LStrip(Tail(s)) ELSE s

RECURSIVE RStrip(_)
RStrip(s) ==
    IF s # <<>> /\ s[Len(s)] \in Whitespace
    THEN RStrip(SubSeq(s, 1, Len(s) - 1)) ELSE s

Strip(s) == RStrip(LStrip(s))

\* The positions of token sep in s.
Positions(s, sep) == {i \in 1..Len(s) : s[i] = sep}

Min(S) == CHOOSE i \in S : \A j \in S : i <= j
Max(S) == CHOOSE i \in S : \A j \in S : i >= j

\* s.split(sep, 1): one element when sep does not occur, else two.
SplitOnce(s, sep) ==
    IF Positions(s, sep) = {} THEN <<s>>
    ELSE LET i == Min(Positions(s, sep))
         IN  <<SubSeq(s, 1, i - 1), SubSeq(s, i + 1, Len(s))>>

\* s.rsplit(sep, 1): split at the last occurrence of sep.
RSplitOnce(s, sep) ==
    IF Positions(s, sep) = {} THEN <<s>>
    ELSE LET i == Max(Positions(s, sep))
         IN  <<SubSeq(s, 1, i - 1), SubSeq(s, i + 1, Len(s))>>

\* s.split(sep)[0]: what precedes the first sep, or all of s.
SplitFirst(s, sep) == SplitOnce(s, sep)[1]

\* len(s.split()): the maximal runs of non-whitespace tokens.
WordCount(s) ==
    Cardinality({i \in 1..Len(s) :
        /\ s[i] \notin Whitespace
        /\ (i = 1 \/ s[i - 1] \in Whitespace)})

\* datetime.now().isoformat(): the date, "T", the time of day; [:10] is the
\* date.
Isoformat(t) == IntToStr(t \div 86400) \o <<"T">> \o IntToStr(t % 86400)
DatePart(ts) == SplitFirst(ts, "T")

\* An optional value (None or a value) is a sequence of length 0 or 1.
None == <<>>
Some(v) == <<v>>

\* x or default, for an optional string.
OrEmpty(opt) == IF opt = None THEN <<>> ELSE opt[1]
\* x or 0, for an optional number.
OrZero(opt) == IF opt = None THEN 0 ELSE opt[1]

(* ---------------------------- credentials ------------------------------ *)

\* get_clients(): the ValueError it raises, or None.
ClientsError(env) ==
    IF ~env.ASSEMBLYAI_API_KEY
    THEN Some("ASSEMBLYAI_API_KEY environment variable is not set")
    ELSE IF ~env.ANTHROPIC_API_KEY
    THEN Some("ANTHROPIC_API_KEY environment variable is not set")
    ELSE None

(* ----------------------------- responses ------------------------------- *)

\* jsonify({"error": msg}), status
ErrorResponse(status, msg) == [status |-> status, error |-> msg]

\* An exception no handler catches: Flask answers 500.
InternalServerError == ErrorResponse(500, "Internal Server Error")

Idle == [op |-> "none"]

NoRequest == [op |-> "none"]

(* ------------------------------ uploads -------------------------------- *)

\* request.files: no "audio" part, or an "audio" part with this filename.
NoAudio == [has_audio |-> FALSE, filename |-> <<>>]
Audio(name) == [has_audio |-> TRUE, filename |-> name]

UploadNames ==
    {<<>>, <<"a", ".", "wav">>, <<"a", ".", "mp3">>, <<"b", ".", "wav">>}

Uploads == {NoAudio} \cup {Audio(n) : n \in UploadNames}

\* What transcriber.transcribe() does: raise, or return a transcript.
Utterance1 ==
    [speaker |-> "A", text |-> <<"hello">>, start |-> 0, end |-> 900,
     confidence |-> 9]
Utterance2 ==
    [speaker |-> "B", text |-> <<"world">>, start |-> 950, end |-> 1800,
     confidence |-> 8]

Raised(msg) == [raised |-> TRUE, message |-> msg]

Transcript(status, error, text, utterances, duration) ==
    [raised |-> FALSE, status |-> status, error |-> error, text |-> text,
     utterances |-> utterances, audio_duration |-> duration]

TranscriptFailures ==
    {Raised("connection reset"),
     Transcript("error", "unsupported audio", None, None, None)}

TranscriptSuccesses ==
    {Transcript("completed", "", Some(<<"hello", " ", "world">>),
                Some(<<Utterance1, Utterance2>>), Some(65)),
     Transcript("completed", "", Some(<<"goodbye">>), None, Some(7)),
     Transcript("completed", "", None, Some(<<>>), None)}

\* The provider reads the scratch file: without it there is no transcript.
TranscribeOutcomes(successes, present) ==
    IF present THEN TranscriptFailures \cup successes ELSE TranscriptFailures

\* filename = f"{int(time.time())}_{audio_file.filename}"
ScratchName(t, name) == IntToStr(t) \o <<"_">> \o name

\* session_id = filename.split(".")[0]
SessionId(filename) == SplitFirst(filename, ".")

\* The utterances list built from the provider's segments.
BuildUtterances(opt) ==
    IF opt = None \/ opt[1] = <<>> THEN <<>>
    ELSE [i \in 1..Len(opt[1]) |->
            [speaker |-> opt[1][i].speaker, text |-> opt[1][i].text,
             start |-> opt[1][i].start, end |-> opt[1][i].end]]

\* The record transcribe stores.
SessionRecord(name, transcript, t) ==
    [filename |-> name,
     full_text |-> OrEmpty(transcript.text),
     utterances |-> BuildUtterances(transcript.utterances),
     duration_seconds |-> OrZero(transcript.audio_duration),
     timestamp |-> Isoformat(t)]

\* session_store[key] = value
StorePut(store, key, value) ==
    [k \in DOMAIN store \cup {key} |-> IF k = key THEN value ELSE store[k]]

\* del d[key], where the key may be absent.
Forget(d, key) == [k \in DOMAIN d \ {key} |-> d[k]]

\* The body of transcribe's 200 response.
TranscribeResponse(sid, transcript) ==
    [status |-> 200,
     session_id |-> sid,
     text |-> OrEmpty(transcript.text),
     utterances |-> BuildUtterances(transcript.utterances),
     duration_seconds |-> transcript.audio_duration,
     word_count |-> WordCount(OrEmpty(transcript.text))]

\* One more upload of session id sid has been answered 200.
Issue(iss, sid) ==
    [k \in DOMAIN iss \cup {sid} |->
        IF k = sid THEN (IF sid \in DOMAIN iss THEN iss[sid] + 1 ELSE 1)
        ELSE iss[k]]

\* The server hands a new request to a free thread.  The threads are
\* interchangeable, so the model takes the free thread of the lowest number.
Free(r) == pc[r] = "idle" /\ \A q \in Threads : pc[q] = "idle" => r <= q

\* The request of thread r is answered: the thread is free again.
Complete(r, request, response) ==
    /\ pc' = [pc EXCEPT ![r] = "idle"]
    /\ loc' = [loc EXCEPT ![r] = Idle]
    /\ last' = [op |-> request.op, thread |-> r, request |-> request,
                response |-> response]

\* Lines 65-80 of transcribe: the checks, then the scratch file is written.
TranscribeBegin(r, uploads, cap) ==
    /\ Free(r)
    /\ started.transcribe < cap
    /\ started' = [started EXCEPT !.transcribe = @ + 1]
    /\ \E up \in uploads :
         LET err == ClientsError(environ)
             filename == ScratchName(now, up.filename)
             args == [op |-> "transcribe", upload |-> up]
         IN  IF err # None
             THEN /\ Complete(r, args, ErrorResponse(400, err[1]))
                  /\ UNCHANGED files
             ELSE IF ~up.has_audio
             THEN /\ Complete(r, args, ErrorResponse(400, "No audio file provided"))
                  /\ UNCHANGED files
             ELSE IF up.filename = <<>>
             THEN /\ Complete(r, args, ErrorResponse(400, "No file selected"))
                  /\ UNCHANGED files
             ELSE /\ files' = files \cup {filename}
                  /\ pc' = [pc EXCEPT ![r] = "transcribing"]
                  /\ loc' = [loc EXCEPT ![r] = [filename |-> filename] @@ args]
                  /\ UNCHANGED last
    /\ UNCHANGED <<environ, now, session_store, issued, analysis_src>>

\* Lines 82-126: the provider call and what the try block does with it.
TranscribeCall(r, successes) ==
    /\ pc[r] = "transcribing"
    /\ pc' = [pc EXCEPT ![r] = "finally"]
    /\ \E tr \in TranscribeOutcomes(successes, loc[r].filename \in files) :
         LET sid == SessionId(loc[r].filename)
         IN  IF tr.raised
             THEN /\ loc' = [loc EXCEPT ![r] = [provider |-> "raised",
                       result |-> ErrorResponse(500, <<"Transcription error: ", tr.message>>)]
                       @@ loc[r]]
                  /\ UNCHANGED <<session_store, issued, analysis_src>>
             ELSE IF tr.status = "error"
             THEN /\ loc' = [loc EXCEPT ![r] = [provider |-> "error",
                       result |-> ErrorResponse(500, <<"Transcription failed: ", tr.error>>)]
                       @@ loc[r]]
                  /\ UNCHANGED <<session_store, issued, analysis_src>>
             ELSE /\ session_store' =
                       StorePut(session_store, sid,
                                SessionRecord(loc[r].upload.filename, tr, now))
                  /\ issued' = Issue(issued, sid)
                  /\ analysis_src' = Forget(analysis_src, sid)
                  /\ loc' = [loc EXCEPT ![r] = [provider |-> "completed",
                       result |-> TranscribeResponse(sid, tr)] @@ loc[r]]
    /\ UNCHANGED <<environ, now, files, last, started>>

\* Line 129: if filepath.exists()
TranscribeFinally(r) ==
    /\ pc[r] = "finally"
    /\ IF loc[r].filename \in files
       THEN /\ pc' = [pc EXCEPT ![r] = "unlink"]
            /\ UNCHANGED <<loc, last>>
       ELSE Complete(r, loc[r], loc[r].result)
    /\ UNCHANGED <<environ, now, session_store, files, started, issued,
                   analysis_src>>

\* A cleanup that leaves the file in place.
UnlinkNothing(fs, path) == fs

\* filepath.unlink()
Unlink(fs, path) == fs \ {path}

\* Line 130: filepath.unlink(), which raises FileNotFoundError when another
\* request has removed the file since the exists() check.
TranscribeUnlink(r) ==
    /\ pc[r] = "unlink"
    /\ IF loc[r].filename \in files
       THEN /\ files' = Unlink(files, loc[r].filename)
            /\ Complete(r, loc[r], loc[r].result)
       ELSE /\ Complete(r, loc[r], InternalServerError)
            /\ UNCHANGED files
    /\ UNCHANGED <<environ, now, session_store, started, issued,
                   analysis_src>>

\* time.time() moves on by a second.
Tick ==
    /\ now < MaxClock
    /\ now' = now + 1
    /\ UNCHANGED <<environ, session_store, files, pc, loc, last, started,
                   issued, analysis_src>>

(* ------------------------------- dicts --------------------------------- *)

\* A cell of a row, and a value of the attributes: a string or a number.
Str(s) == [t |-> "str", s |-> s, n |-> 0]
Num(n) == [t |-> "num", s |-> <<>>, n |-> n]

\* A dict with string keys: its items, in the order of insertion.
Pair(k, v) == [key |-> k, value |-> v]

\* The keys of a dict, in order.
Keys(row) == [i \in 1..Len(row) |-> row[i].key]
Values(row) == [i \in 1..Len(row) |-> row[i].value]

\* A merge in which the value a key already has wins.
DictSetDefault(row, pair) ==
    IF \E i \in 1..Len(row) : row[i].key = pair.key
    THEN row ELSE Append(row, pair)

\* d[k] = v: a key the dict holds keeps its place and takes the new value, a
\* new key goes last.
DictSet(row, pair) ==
    IF \E i \in 1..Len(row) : row[i].key = pair.key
    THEN [i \in 1..Len(row) |->
            IF row[i].key = pair.key THEN pair ELSE row[i]]
    ELSE Append(row, pair)

\* {**base, **items}
RECURSIVE DictMerge(_, _)
DictMerge(base, items) ==
    IF items = <<>> THEN base
    ELSE DictMerge(DictSet(base, Head(items)), Tail(items))

(* ------------------------------ analysis ------------------------------- *)

\* A JSON value of a request body: null, a string, a number or an array.
JNull == [t |-> "null", s |-> <<>>, n |-> 0]
JString(s) == [t |-> "string", s |-> s, n |-> 0]
JNumber(n) == [t |-> "number", s |-> <<>>, n |-> n]
JArray(s) == [t |-> "array", s |-> s, n |-> 0]

\* not v
Falsy(v) ==
    \/ v.t = "null"
    \/ v.t \in {"string", "array"} /\ v.s = <<>>
    \/ v.t = "number" /\ v.n = 0

\* hash(v) raises TypeError for a list.
Hashable(v) == v.t # "array"

\* v in store, for a hashable v: the keys of the store are strings.
IsKey(v, store) == v.t = "string" /\ v.s \in DOMAIN store


\* The value under "attributes": an object (its items in order), an array
\* or null.
AObject(items) == [t |-> "object", items |-> items]
AArray(items) == [t |-> "array", items |-> items]
ANull == [t |-> "null", items |-> <<>>]

\* not attributes
AFalsy(a) == a.t = "null" \/ a.items = <<>>

\* The run of three backticks that opens and closes a markdown fence.
FENCE == "FENCE"

\* The JSON documents a reply can hold, each one token of text.
JsonTokens ==
    {"{summary,attributes:{topic,sentiment}}",
     "{summary,attributes:{sentiment,filename}}",
     "{attributes:{word_count}}",
     "{summary}",
     "{summary,attributes:null}",
     "{summary,attributes:[..]}",
     "[..]"}

\* What json.loads makes of each document.
JDoc(summary, attributes) ==
    [t |-> "object", summary |-> summary, attributes |-> attributes]

JsonValue(tok) ==
    CASE tok = "{summary,attributes:{topic,sentiment}}" ->
           JDoc(Some(<<"calm", " ", "call">>),
                Some(AObject(<<Pair("topic", Str(<<"billing">>)),
                               Pair("sentiment", Str(<<"positive">>))>>)))
      [] tok = "{summary,attributes:{sentiment,filename}}" ->
           JDoc(Some(<<"sales", " ", "call">>),
                Some(AObject(<<Pair("sentiment", Str(<<"negative">>)),
                               Pair("filename", Str(<<"override", ".", "wav">>))>>)))
      [] tok = "{attributes:{word_count}}" ->
           JDoc(None, Some(AObject(<<Pair("word_count", Num(3))>>)))
      [] tok = "{summary}" ->
           JDoc(Some(<<"calm", " ", "call">>), None)
      [] tok = "{summary,attributes:null}" ->
           JDoc(Some(<<"calm", " ", "call">>), Some(ANull))
      [] tok = "{summary,attributes:[..]}" ->
           JDoc(Some(<<"calm", " ", "call">>),
                Some(AArray(<<Pair("0", Str(<<"billing">>))>>)))
      [] OTHER -> [t |-> "array", summary |-> None, attributes |-> None]

\* json.loads(text): the value, or None for a JSONDecodeError.  JSON lets
\* whitespace surround the one value.
JsonLoads(text) ==
    LET body == Strip(text)
    IN  IF Len(body) = 1 /\ body[1] \in JsonTokens
        THEN Some(JsonValue(body[1])) ELSE None

\* What claude_client.messages.create() does: raise, or return a message
\* whose content is a list of text blocks.
Message(content) == [raised |-> FALSE, message |-> "", content |-> content]
Failure(msg) == [raised |-> TRUE, message |-> msg, content |-> <<>>]

DefaultModel == <<"claude-sonnet-4-5-20250929">>

\* The outcome of lines 173-219 for one reply.
Stored(summary, attributes, note) ==
    [kind |-> "stored", summary |-> summary, attributes |-> attributes,
     note |-> note, message |-> ""]
Failed(msg) ==
    [kind |-> "error", summary |-> <<>>, attributes |-> ANull,
     note |-> FALSE, message |-> msg]

\* Lines 184-186: the text inside a markdown fence; None when
\* split("\n", 1) has no second element (IndexError).
Unfence(text) ==
    IF text # <<>> /\ Head(text) = FENCE
    THEN LET parts == SplitOnce(text, "\n")
         IN  IF Len(parts) < 2 THEN None
             ELSE Some(RSplitOnce(parts[2], FENCE)[1])
    ELSE Some(text)

\* Lines 188-190 and the handler of JSONDecodeError, lines 205-217.
ParseText(text) ==
    LET doc == JsonLoads(text)
    IN  IF doc = None THEN Stored(text, AObject(<<>>), TRUE)
        ELSE IF doc[1].t # "object"
        THEN Failed("list object has no attribute get")
        ELSE Stored(OrEmpty(doc[1].summary),
                    IF doc[1].attributes = None THEN AObject(<<>>)
                    ELSE doc[1].attributes[1],
                    FALSE)

\* Lines 173-219: what analyze makes of the provider's reply.
ParseReply(reply) ==
    IF reply.raised THEN Failed(reply.message)
    ELSE IF reply.content = <<>> THEN Failed("list index out of range")
    ELSE LET inner == Unfence(Strip(reply.content[1]))
         IN  IF inner = None THEN Failed("list index out of range")
             ELSE ParseText(inner[1])

\* The analysis record of lines 193-198 and 207-212.
AnalysisRecord(out, prompt, model) ==
    [summary |-> out.summary, attributes |-> out.attributes,
     prompt_used |-> prompt, model |-> model]

\* A store that merges the new attributes into the ones the session holds.
MergeAnalysis(store, sid, analysis) ==
    IF "analysis" \in DOMAIN store[sid]
          /\ store[sid].analysis.attributes.t = "object"
          /\ analysis.attributes.t = "object"
    THEN [store EXCEPT ![sid] =
            [analysis |->
                [analysis EXCEPT !.attributes.items =
                    DictMerge(store[sid].analysis.attributes.items, @)]]
            @@ store[sid]]
    ELSE [store EXCEPT ![sid] = [analysis |-> analysis] @@ store[sid]]

\* session_store[session_id]["analysis"] = analysis
SetAnalysis(store, sid, analysis) ==
    [store EXCEPT ![sid] = [analysis |-> analysis] @@ store[sid]]

\* A handler that also records a failed call as the session's analysis.
StoreAfterReplyAlways(store, sid, out, prompt, model) ==
    SetAnalysis(store, sid,
        AnalysisRecord([out EXCEPT !.summary = <<out.message>>,
                                   !.attributes = AObject(<<>>)],
                       prompt, model))

\* The store after the reply has been handled.
StoreAfterReply(store, sid, out, prompt, model) ==
    IF out.kind = "stored"
    THEN SetAnalysis(store, sid, AnalysisRecord(out, prompt, model))
    ELSE store

\* The response of analyze to the reply.
AnalyzeResponse(out) ==
    IF out.kind = "error"
    THEN ErrorResponse(500, <<"Analysis error: ", out.message>>)
    ELSE [status |-> 200, summary |-> out.summary,
          attributes |-> out.attributes, note |-> out.note]

\* The two checks in the other order.
AnalyzeCheckPromptFirst(body, store) ==
    IF Strip(body.prompt) = <<>> THEN
        Some(ErrorResponse(400, "Analysis prompt cannot be empty."))
    ELSE IF Falsy(body.session_id) THEN
        Some(ErrorResponse(400, "Invalid session. Please transcribe audio first."))
    ELSE IF ~Hashable(body.session_id) THEN Some(InternalServerError)
    ELSE IF ~IsKey(body.session_id, store) THEN
        Some(ErrorResponse(400, "Invalid session. Please transcribe audio first."))
    ELSE None

\* The prompt checked without strip().
AnalyzeCheckNoStrip(body, store) ==
    IF Falsy(body.session_id) THEN
        Some(ErrorResponse(400, "Invalid session. Please transcribe audio first."))
    ELSE IF ~Hashable(body.session_id) THEN Some(InternalServerError)
    ELSE IF ~IsKey(body.session_id, store) THEN
        Some(ErrorResponse(400, "Invalid session. Please transcribe audio first."))
    ELSE IF body.prompt = <<>> THEN
        Some(ErrorResponse(400, "Analysis prompt cannot be empty."))
    ELSE None

\* The check of lines 146-149, in the code's order: the response that ends
\* the request, or None.  A session id that cannot be hashed raises
\* TypeError out of the handler.
AnalyzeCheck(body, store) ==
    IF Falsy(body.session_id) THEN
        Some(ErrorResponse(400, "Invalid session. Please transcribe audio first."))
    ELSE IF ~Hashable(body.session_id) THEN Some(InternalServerError)
    ELSE IF ~IsKey(body.session_id, store) THEN
        Some(ErrorResponse(400, "Invalid session. Please transcribe audio first."))
    ELSE IF Strip(body.prompt) = <<>> THEN
        Some(ErrorResponse(400, "Analysis prompt cannot be empty."))
    ELSE None

\* The body of an analyze request after data.get: session_id (None when
\* absent), prompt ("" when absent), model (the default when absent).
AnalyzeBody(session_id, prompt, model) ==
    [session_id |-> session_id, prompt |-> OrEmpty(prompt),
     model |-> IF model = None THEN DefaultModel ELSE model[1]]

\* Lines 136-152 of analyze: the checks, then the transcript is read.
AnalyzeBegin(r, bodies, cap) ==
    /\ Free(r)
    /\ started.analyze < cap
    /\ started' = [started EXCEPT !.analyze = @ + 1]
    /\ \E body \in bodies :
         LET err == ClientsError(environ)
             bad == AnalyzeCheck(body, session_store)
             args == [op |-> "analyze", session_id |-> body.session_id,
                      prompt |-> body.prompt, model |-> body.model]
         IN  IF err # None
             THEN Complete(r, args, ErrorResponse(400, err[1]))
             ELSE IF bad # None
             THEN Complete(r, args, bad[1])
             ELSE /\ pc' = [pc EXCEPT ![r] = "analyzing"]
                  /\ loc' = [loc EXCEPT ![r] =
                        [transcript_text |->
                            session_store[body.session_id.s].full_text] @@ args]
                  /\ UNCHANGED last
    /\ UNCHANGED <<environ, now, session_store, files, issued, analysis_src>>

\* The attribute keys of the analysis a session holds, if it holds one.
AnalysisKeys(session) ==
    IF "analysis" \in DOMAIN session
    THEN {session.analysis.attributes.items[i].key :
             i \in 1..Len(session.analysis.attributes.items)}
    ELSE {}

\* Lines 173-219: the provider call, the parse and the store.
AnalyzeCall(r, replies) ==
    /\ pc[r] = "analyzing"
    /\ \E reply \in replies :
         LET out == ParseReply(reply)
             sid == loc[r].session_id.s
         IN  /\ session_store' =
                  StoreAfterReply(session_store, sid, out, loc[r].prompt,
                                  loc[r].model)
             /\ analysis_src' =
                  IF out.kind = "stored"
                  THEN StorePut(analysis_src, sid, loc[r].transcript_text)
                  ELSE analysis_src
             /\ Complete(r, [reply |-> reply,
                             had |-> "analysis" \in DOMAIN session_store[sid],
                             prior_keys |-> AnalysisKeys(session_store[sid])]
                            @@ loc[r],
                         AnalyzeResponse(out))
    /\ UNCHANGED <<environ, now, files, started, issued>>

(* ------------------------------- export -------------------------------- *)

\* Lines 334-340: the four metadata columns.
MetadataRow(session) ==
    <<Pair("filename", Str(session.filename)),
      Pair("date", Str(DatePart(session.timestamp))),
      Pair("duration_seconds", Num(session.duration_seconds)),
      Pair("word_count", Num(WordCount(session.full_text)))>>

\* The row of lines 334-340.
CsvRow(session) ==
    DictMerge(MetadataRow(session), session.analysis.attributes.items)

\* writer.writeheader(); writer.writerow(row): the file's records.
CsvFile(row) == <<Keys(row), Values(row)>>

\* The response of export_csv (lines 319-353).  A session id that cannot be
\* hashed, and attributes that are no mapping, raise TypeError out of the
\* handler.
ExportCsvResponse(session_id, store) ==
    IF Falsy(session_id) THEN ErrorResponse(400, "Invalid session.")
    ELSE IF ~Hashable(session_id) THEN InternalServerError
    ELSE IF ~IsKey(session_id, store) THEN ErrorResponse(400, "Invalid session.")
    ELSE LET session == store[session_id.s]
         IN  IF "analysis" \notin DOMAIN session
                \/ AFalsy(session.analysis.attributes)
             THEN ErrorResponse(400,
                    "No analysis attributes found. Run analysis first.")
             ELSE IF session.analysis.attributes.t # "object"
             THEN InternalServerError
             ELSE [status |-> 200, records |-> CsvFile(CsvRow(session))]

\* export_csv: it reads the store and answers.
ExportCsv(r, ids, cap) ==
    /\ Free(r)
    /\ started.export < cap
    /\ started' = [started EXCEPT !.export = @ + 1]
    /\ \E session_id \in ids :
         Complete(r, [op |-> "export_csv", session_id |-> session_id],
                  ExportCsvResponse(session_id, session_store))
    /\ UNCHANGED <<environ, now, session_store, files, issued, analysis_src>>

(* ------------------------------- inputs -------------------------------- *)

\* The session ids a client sends: what no upload was given, and every key
\* of the store.
UnknownIds ==
    {JNull, JString(<<>>), JString(<<"9", "_", "zz">>), JNumber(7),
     JArray(<<>>), JArray(<<"1", "_", "a">>)}

SessionIds(store) == UnknownIds \cup {JString(k) : k \in DOMAIN store}

Prompts ==
    {None, Some(<<" ", "\n">>), Some(<<"summarise">>),
     Some(<<" ", "list", " ", "topics", "\n">>)}

Models == {None, Some(<<"claude-haiku">>)}

AnalyzeBodies(ids, prompts, models) ==
    {AnalyzeBody(i, p, m) : i \in ids, p \in prompts, m \in models}

JsonA == "{summary,attributes:{topic,sentiment}}"
JsonB == "{summary,attributes:{sentiment,filename}}"

\* Replies whose text is a JSON document, bare, padded or fenced.
JsonReplies ==
    {Message(<<<<JsonA>>>>),
     Message(<<<<" ", JsonB, "\n">>>>),
     Message(<<<<FENCE, "json", "\n", JsonA, "\n", FENCE>>>>),
     Message(<<<<"{summary}">>>>),
     Message(<<<<"{attributes:{word_count}}">>>>)}

\* Replies whose attributes are no mapping, or that are no object.
OddJsonReplies ==
    {Message(<<<<"{summary,attributes:null}">>>>),
     Message(<<<<"{summary,attributes:[..]}">>>>),
     Message(<<<<"[..]">>>>)}

\* Replies whose text is no JSON document.
TextReplies ==
    {Message(<<<<"Sure", " ", "thing">>>>),
     Message(<<<<" ", "Sure", "\n">>>>),
     Message(<<<<FENCE, "\n", "Sure", "\n", FENCE>>>>),
     Message(<<<<FENCE, JsonB, FENCE>>>>),
     Message(<<<<FENCE, "Sure", FENCE>>>>),
     Message(<<<<>>>>)}

\* The provider call fails, or the message holds no text block.
FailedReplies == {Failure("overloaded"), Message(<<>>)}

Replies == JsonReplies \cup OddJsonReplies \cup TextReplies \cup FailedReplies

(* ----------------------------- the system ------------------------------ *)

Environments ==
    [ASSEMBLYAI_API_KEY : BOOLEAN, ANTHROPIC_API_KEY : BOOLEAN]

Init ==
    /\ environ \in Environments
    /\ now = 1
    /\ session_store = <<>>
    /\ files = {}
    /\ pc = [r \in Threads |-> "idle"]
    /\ loc = [r \in Threads |-> Idle]
    /\ last = NoRequest
    /\ started = [transcribe |-> 0, analyze |-> 0, export |-> 0]
    /\ issued = <<>>
    /\ analysis_src = <<>>

\* Every request, with every input of the sets above.
Next ==
    \/ Tick
    \/ \E r \in Threads : TranscribeBegin(r, Uploads, MaxUploads)
    \/ \E r \in Threads : TranscribeCall(r, TranscriptSuccesses)
    \/ \E r \in Threads : TranscribeFinally(r)
    \/ \E r \in Threads : TranscribeUnlink(r)
    \/ \E r \in Threads :
          AnalyzeBegin(r, AnalyzeBodies(SessionIds(session_store), Prompts, Models),
                       MaxAnalyses)
    \/ \E r \in Threads : AnalyzeCall(r, Replies)
    \/ \E r \in Threads : ExportCsv(r, SessionIds(session_store), MaxExports)

Spec == Init /\ [][Next]_vars

\* The specifications below are Spec with the requests and inputs cut down
\* to those a group of properties is about, so that each can be explored
\* in full.

\* Uploads only, with every upload and every transcript.
NextUpload ==
    \/ Tick
    \/ \E r \in Threads : TranscribeBegin(r, Uploads, MaxUploads)
    \/ \E r \in Threads : TranscribeCall(r, TranscriptSuccesses)
    \/ \E r \in Threads : TranscribeFinally(r)
    \/ \E r \in Threads : TranscribeUnlink(r)

SpecUpload == Init /\ [][NextUpload]_vars

\* Uploads of one name, which collide within a second, and analyze requests
\* on the sessions they make.
OneUpload == {Audio(<<"a", ".", "wav">>)}

TwoTranscripts ==
    {Transcript("completed", "", Some(<<"hello", " ", "world">>),
                Some(<<Utterance1, Utterance2>>), Some(65)),
     Transcript("completed", "", Some(<<"goodbye">>), None, Some(7))}

StoredIds(store) == {JString(k) : k \in DOMAIN store}

TwoBodies(store) ==
    {AnalyzeBody(i, Some(<<"summarise">>), None) : i \in StoredIds(store)}
    \cup {AnalyzeBody(i, Some(<<" ", "list", " ", "topics", "\n">>),
                      Some(<<"claude-haiku">>)) : i \in StoredIds(store)}

OneTranscript ==
    {Transcript("completed", "", Some(<<"hello", " ", "world">>),
                Some(<<Utterance1, Utterance2>>), Some(65))}

TwoReplies == {Message(<<<<JsonA>>>>), Failure("overloaded")}

OneBody(store) ==
    {AnalyzeBody(i, Some(<<"summarise">>), None) : i \in StoredIds(store)}

FewReplies ==
    {Message(<<<<JsonA>>>>), Message(<<<<" ", JsonB, "\n">>>>),
     Message(<<<<"Sure", " ", "thing">>>>), Failure("overloaded")}
    \cup {Message(<<>>)}

NextAnalyze ==
    \/ Tick
    \/ \E r \in Threads : TranscribeBegin(r, OneUpload, FewUploads)
    \/ \E r \in Threads : TranscribeCall(r, TwoTranscripts)
    \/ \E r \in Threads : TranscribeFinally(r)
    \/ \E r \in Threads : TranscribeUnlink(r)
    \/ \E r \in Threads : AnalyzeBegin(r, TwoBodies(session_store), MaxAnalyses)
    \/ \E r \in Threads : AnalyzeCall(r, FewReplies)

SpecAnalyze == Init /\ [][NextAnalyze]_vars

\* Two uploads of one name and an analyze request between them.
NextCollide ==
    \/ Tick
    \/ \E r \in Threads : TranscribeBegin(r, OneUpload, MaxUploads)
    \/ \E r \in Threads : TranscribeCall(r, TwoTranscripts)
    \/ \E r \in Threads : TranscribeFinally(r)
    \/ \E r \in Threads : TranscribeUnlink(r)
    \/ \E r \in Threads : AnalyzeBegin(r, OneBody(session_store), FewAnalyses)
    \/ \E r \in Threads : AnalyzeCall(r, TwoReplies)

SpecCollide == Init /\ [][NextCollide]_vars

\* One upload, and an analyze request with every session id and prompt.
NextValidate ==
    \/ Tick
    \/ \E r \in Threads : TranscribeBegin(r, OneUpload, FewUploads)
    \/ \E r \in Threads : TranscribeCall(r, OneTranscript)
    \/ \E r \in Threads : TranscribeFinally(r)
    \/ \E r \in Threads : TranscribeUnlink(r)
    \/ \E r \in Threads :
          AnalyzeBegin(r, AnalyzeBodies(SessionIds(session_store), Prompts, Models),
                       FewAnalyses)
    \/ \E r \in Threads : AnalyzeCall(r, TwoReplies)

SpecValidate == Init /\ [][NextValidate]_vars

\* One upload, and an analyze request with every reply of the provider.
NextReply ==
    \/ Tick
    \/ \E r \in Threads : TranscribeBegin(r, OneUpload, FewUploads)
    \/ \E r \in Threads : TranscribeCall(r, OneTranscript)
    \/ \E r \in Threads : TranscribeFinally(r)
    \/ \E r \in Threads : TranscribeUnlink(r)
    \/ \E r \in Threads : AnalyzeBegin(r, OneBody(session_store), FewAnalyses)
    \/ \E r \in Threads : AnalyzeCall(r, Replies)

SpecReply == Init /\ [][NextReply]_vars

\* One upload, an analysis of every shape, and the export of its row.
ExportIds(store) ==
    {JNull, JString(<<"9", "_", "zz">>), JArray(<<"1", "_", "a">>)}
    \cup StoredIds(store)

NextExport ==
    \/ Tick
    \/ \E r \in Threads : TranscribeBegin(r, OneUpload, FewUploads)
    \/ \E r \in Threads : TranscribeCall(r, TwoTranscripts)
    \/ \E r \in Threads : TranscribeFinally(r)
    \/ \E r \in Threads : TranscribeUnlink(r)
    \/ \E r \in Threads : AnalyzeBegin(r, OneBody(session_store), FewAnalyses)
    \/ \E r \in Threads : AnalyzeCall(r, JsonReplies \cup OddJsonReplies)
    \/ \E r \in Threads : ExportCsv(r, ExportIds(session_store), MaxExports)

SpecExport == Init /\ [][NextExport]_vars

(* ------------------------------ properties ----------------------------- *)

\* The step is thread r's, and it ends r's request.
Completes(r) == pc[r] # "idle" /\ pc'[r] = "idle"

\* The step begins an analyze request; its body, whether the request is
\* answered in the same step or goes on to the provider.
AnalyzeBegun == started'.analyze = started.analyze + 1
AnsweredAtOnce == pc' = pc
BegunBody ==
    IF AnsweredAtOnce THEN last'.request
    ELSE loc'[CHOOSE r \in Threads : pc'[r] # pc[r]]

InvalidSession ==
    ErrorResponse(400, "Invalid session. Please transcribe audio first.")
EmptyPrompt == ErrorResponse(400, "Analysis prompt cannot be empty.")
NoAnalysis ==
    ErrorResponse(400, "No analysis attributes found. Run analysis first.")

\* C1: a valid upload creates exactly one new session record if and only
\* if the provider reports a non-error status: the step that handles the
\* provider's answer adds one key to the store and changes no other record
\* when the transcript is not in error, and leaves the store as it was when
\* the provider reports an error or the call raises; no other step of the
\* request touches the store.
C1_OneNewSessionIffProviderSucceeds ==
    [][\A r \in Threads :
        /\ (pc[r] = "transcribing" /\ pc'[r] = "finally") =>
             LET sid == SessionId(loc[r].filename)
             IN  IF loc'[r].provider = "completed"
                 THEN /\ sid \notin DOMAIN session_store
                      /\ DOMAIN session_store' = DOMAIN session_store \cup {sid}
                      /\ \A k \in DOMAIN session_store :
                            session_store'[k] = session_store[k]
                 ELSE session_store' = session_store
        /\ (pc[r] \in {"finally", "unlink"} /\ pc'[r] # pc[r]) =>
             session_store' = session_store
        /\ (pc[r] = "idle" /\ pc'[r] = "transcribing") =>
             session_store' = session_store]_vars

\* C2: when a transcribe request that wrote a scratch file is answered,
\* whatever the provider did and whatever other uploads did meanwhile, no
\* file of its scratch name is in the upload directory.
C2_ScratchFileGoneWhenAnswered ==
    [][\A r \in Threads :
        (pc[r] \in {"transcribing", "finally", "unlink"} /\ Completes(r)) =>
            loc[r].filename \notin files']_vars

\* C2 witness: an upload whose provider call raised has been answered and
\* its scratch file is gone, while another upload of the same scratch name
\* is still under way.
C2_Witness ==
    /\ last.op = "transcribe"
    /\ "provider" \in DOMAIN last.request
    /\ last.request.provider = "raised"
    /\ last.request.filename \notin files
    /\ \E q \in Threads :
          /\ pc[q] \in {"transcribing", "finally", "unlink"}
          /\ loc[q].filename = last.request.filename

C4_BlankPromptAlwaysEmpty ==
    [][(AnalyzeBegun /\ Strip(BegunBody.prompt) = <<>>) =>
        /\ AnsweredAtOnce
        /\ last'.response = EmptyPrompt
        /\ session_store' = session_store]_vars

\* C4, amended: with both credentials set and a session id that is a key
\* of the store, an analyze request whose prompt is empty or only
\* whitespace is answered with the empty-prompt error at once, without a
\* provider call and with the store unchanged.
C4_BlankPromptEmpty ==
    [][(/\ AnalyzeBegun
        /\ ClientsError(environ) = None
        /\ IsKey(BegunBody.session_id, session_store)
        /\ Strip(BegunBody.prompt) = <<>>) =>
        /\ AnsweredAtOnce
        /\ last'.response = EmptyPrompt
        /\ session_store' = session_store]_vars

\* C4 witness: a request on a stored session with a prompt of whitespace
\* was answered empty-prompt.
C4_Witness ==
    /\ last.op = "analyze"
    /\ last.response = EmptyPrompt
    /\ last.request.prompt # <<>>
    /\ IsKey(last.request.session_id, session_store)

\* C5: when an analyze call stores a result, the session's analysis is
\* exactly that call's summary, attributes, prompt and model, and the
\* session's other fields are what they were.
C5_AnalysisReplaced ==
    [][\A r \in Threads :
        (pc[r] = "analyzing" /\ Completes(r) /\ last'.response.status = 200) =>
            LET sid == loc[r].session_id.s
                old == session_store[sid]
                new == session_store'[sid]
            IN  /\ DOMAIN new = DOMAIN old \cup {"analysis"}
                /\ new.analysis =
                     [summary |-> last'.response.summary,
                      attributes |-> last'.response.attributes,
                      prompt_used |-> loc[r].prompt,
                      model |-> loc[r].model]
                /\ \A f \in DOMAIN old \ {"analysis"} : new[f] = old[f]
                /\ \A k \in DOMAIN session_store \ {sid} :
                      session_store'[k] = session_store[k]]_vars

\* C5 witness: the analyze call answered last stored its result on a
\* session whose earlier analysis had an attribute key the new one lacks.
C5_Witness ==
    /\ last.op = "analyze"
    /\ last.response.status = 200
    /\ last.request.session_id.s \in DOMAIN session_store
    /\ \E k \in last.request.prior_keys :
          k \notin AnalysisKeys(session_store[last.request.session_id.s])

\* C6: when the provider's text holds no JSON document, the analyze request
\* does not fail: it is answered 200 with empty attributes and the note.
C6_TextReplyDoesNotFail ==
    [][\A r \in Threads :
        (/\ pc[r] = "analyzing" /\ Completes(r)
         /\ ~last'.request.reply.raised
         /\ last'.request.reply.content # <<>>
         /\ \A i \in 1..Len(last'.request.reply.content[1]) :
                last'.request.reply.content[1][i] \notin JsonTokens) =>
            /\ last'.response.status = 200
            /\ last'.response.attributes = AObject(<<>>)
            /\ last'.response.note]_vars

\* C7: when the provider call raises, the analyze request is answered 500
\* with the exception's message, and no step of a request that ends in
\* such an error changes the store.
C7_ProviderFailureLeavesStore ==
    [][/\ \A r \in Threads :
            (pc[r] = "analyzing" /\ Completes(r)) =>
                /\ last'.request.reply.raised =>
                     last'.response =
                        ErrorResponse(500, <<"Analysis error: ",
                                             last'.request.reply.message>>)
                /\ last'.response.status = 500 =>
                     session_store' = session_store
       /\ AnalyzeBegun => session_store' = session_store]_vars

\* C7 witness: an analyze call on a session that held an analysis failed at
\* the provider, and the session still holds an analysis.
C7_Witness ==
    /\ last.op = "analyze"
    /\ last.response.status = 500
    /\ "reply" \in DOMAIN last.request
    /\ last.request.reply.raised
    /\ last.request.had
    /\ "analysis" \in DOMAIN session_store[last.request.session_id.s]

\* The export's request and response, in the step that makes it.
Exported == started'.export = started.export + 1
FixedColumns == <<"filename", "date", "duration_seconds", "word_count">>
Range(q) == {q[i] : i \in 1..Len(q)}

\* The value the file gives for column k.
Column(records, k) ==
    records[2][CHOOSE i \in 1..Len(records[1]) : records[1][i] = k]

\* The items whose key is not in the set.
RECURSIVE Without(_, _)
Without(items, keys) ==
    IF items = <<>> THEN <<>>
    ELSE IF Head(items).key \in keys THEN Without(Tail(items), keys)
    ELSE <<Head(items)>> \o Without(Tail(items), keys)

\* C8, as claimed: the export of a stored session fails with no-analysis
\* when the session has no analysis or no attributes; with a non-empty
\* attributes mapping it gives one header and one data row, the four fixed
\* columns first, 4 + (number of attribute keys) columns in all, and the
\* value of every attribute under its key.
C8_ExportColumnsFourPlusKeys ==
    [][(Exported /\ IsKey(last'.request.session_id, session_store)) =>
        LET session == session_store[last'.request.session_id.s]
            res == last'.response
        IN  IF "analysis" \notin DOMAIN session
               \/ AFalsy(session.analysis.attributes)
            THEN res = NoAnalysis
            ELSE session.analysis.attributes.t = "object" =>
                 LET items == session.analysis.attributes.items
                 IN  /\ res.status = 200
                     /\ Len(res.records) = 2
                     /\ Len(res.records[2]) = Len(res.records[1])
                     /\ SubSeq(res.records[1], 1, 4) = FixedColumns
                     /\ Len(res.records[1]) = 4 + Len(items)
                     /\ \A i \in 1..Len(items) :
                           Column(res.records, items[i].key) = items[i].value]_vars

\* C8, amended: the export of a stored session fails with no-analysis when
\* the session has no analysis or no attributes; with a non-empty
\* attributes mapping it gives one header and one data row, whose columns
\* are the four fixed ones followed by the attribute keys that are not a
\* fixed column name, 4 + (number of such keys) in all, with the value of
\* every attribute under its key and the metadata under the other fixed
\* columns.
C8_ExportColumns ==
    [][(Exported /\ IsKey(last'.request.session_id, session_store)) =>
        LET session == session_store[last'.request.session_id.s]
            res == last'.response
        IN  IF "analysis" \notin DOMAIN session
               \/ AFalsy(session.analysis.attributes)
            THEN res = NoAnalysis
            ELSE session.analysis.attributes.t = "object" =>
                 LET items == session.analysis.attributes.items
                     extra == Without(items, Range(FixedColumns))
                     meta == MetadataRow(session)
                 IN  /\ res.status = 200
                     /\ Len(res.records) = 2
                     /\ Len(res.records[2]) = Len(res.records[1])
                     /\ res.records[1] = FixedColumns \o Keys(extra)
                     /\ Len(res.records[1]) = 4 + Len(extra)
                     /\ \A i \in 1..Len(items) :
                           Column(res.records, items[i].key) = items[i].value
                     /\ \A i \in 1..4 :
                           meta[i].key \notin Range(Keys(items)) =>
                              res.records[2][i] = meta[i].value]_vars

\* C8 witness: an export gave a row in which the attribute "filename" took
\* the place of the uploaded file's name.
C8_Witness ==
    /\ last.op = "export_csv"
    /\ last.response.status = 200
    /\ Len(last.response.records[1]) = 5
    /\ Column(last.response.records, "filename")
         = Str(<<"override", ".", "wav">>)
    /\ Column(last.response.records, "sentiment") = Str(<<"negative">>)

\* C9: no two uploads are answered with the same session id.
C9_SessionIdsUnique ==
    \A sid \in DOMAIN issued : issued[sid] <= 1

\* C10: a session that holds an analysis holds one made from the transcript
\* the session holds now.
C10_AnalysisOfCurrentTranscript ==
    \A sid \in DOMAIN session_store :
        "analysis" \in DOMAIN session_store[sid] =>
            /\ sid \in DOMAIN analysis_src
            /\ analysis_src[sid] = session_store[sid].full_text

====
